---- MODULE Spec2Model ----
(***************************************************************************)
(* Model of web_server_app.py: the remote-control dashboard server.        *)
(*                                                                         *)
(* The server runs with async_mode 'threading' (load_config default): the  *)
(* main thread, the capture thread, the telemetry thread, the video push   *)
(* thread and one thread per inbound Socket.IO event all share the module  *)
(* globals system_status and system_logs.  A step of the model is one      *)
(* access to shared state (one list operation, one dictionary read or      *)
(* write, one emit); everything local to a thread between two such         *)
(* accesses is folded into the step that follows it.                       *)
(***************************************************************************)
EXTENDS Integers, Sequences, FiniteSets, TLC

\* ------------------------------------------------------------------ bounds
\* config['system']['max_logs'] (100 in the default configuration).
max_logs == 2
\* Number of concurrently running event-handler threads.
NHandlers == 2
\* Number of client sessions that may connect.
NSessions == 2
\* Number of inbound events handled in one behaviour.
MaxEvents == 3
\* Number of iterations of each periodic loop in one behaviour.
MaxTicks == 3
\* Number of iterations of a periodic loop that runs beside the threads a
\* specification is about (the capture loop beside the video push loop, the
\* telemetry loop beside the connect handlers).
MaxSideTicks == 1

\* ------------------------------------------------------------ identifiers
MainThread == 0
Handlers == 1..NHandlers
Sessions == 1..NSessions
Threads == {MainThread} \cup Handlers

None == "None"
Free == -1

VARIABLES
    config,         \* the configuration snapshot read at import time
    system_status,  \* the system_status dictionary
    system_logs,    \* the system_logs list
    camera_stream,  \* the CameraStream instance: camera, running, frame, lock
    pc,             \* position of every thread
    loc,            \* local variables of every thread
    sess,           \* life cycle of every client session
    inbox,          \* messages delivered to every client session, in order
    nAppended,      \* number of entries ever appended to system_logs (history)
    nEvents,        \* number of inbound events dispatched so far
    tel,            \* telemetry thread: position and locals
    cap,            \* capture thread: position, locals, and the history
                    \* counters failures (entries into the failure state) and
                    \* fallbacks (WARNING/ERROR entries appended)
    vid             \* video push thread: position

vars == <<config, system_status, system_logs, camera_stream, pc, loc, sess,
          inbox, nAppended, nEvents, tel, cap, vid>>

\* ---------------------------------------------------------------- helpers
Max(a, b) == IF a >= b THEN a ELSE b
Min(a, b) == IF a <= b THEN a ELSE b

\* The sessions a broadcast reaches: python-socketio enters a session into
\* the namespace room before it runs the 'connect' handler and removes it
\* after the 'disconnect' handler.
Registry == {s \in Sessions : sess[s] \in {"connecting", "connected", "disconnecting"}}

\* socketio.emit(event, data): broadcast to every registered session.
Broadcast(box, event, data) ==
    [s \in Sessions |->
        IF s \in Registry THEN Append(box[s], [event |-> event, data |-> data])
        ELSE box[s]]

\* flask_socketio.emit(event, data) inside a handler: to the requesting
\* session only.
Unicast(box, s, event, data) ==
    [box EXCEPT ![s] = IF s \in Registry
                       THEN Append(@, [event |-> event, data |-> data])
                       ELSE @]

\* Values standing for "no log entry yet" and "no event data".
NoEntry == [id |-> 0, level |-> None, message |-> <<>>]
NoData == [nodata |-> TRUE]

\* The result of get_wifi_signal_strength: a percentage, or None.
NoSignal == [found |-> FALSE, percentage |-> 0]
Signal(p) == [found |-> TRUE, percentage |-> p]

\* The locals of a thread.  tick is history: the telemetry ticks whose
\* writes the wifi_strength and the battery read by the thread come from.
NoLocals == [sid |-> 0, message |-> <<>>, level |-> None, ret |-> None,
             log_entry |-> NoEntry, data |-> NoData, exc |-> None,
             tick |-> [wifi |-> 0, battery |-> 0]]

\* A call of add_log(message, level) by thread t, returning to label ret.
CallAddLog(t, l, message, level, ret) ==
    /\ loc' = [loc EXCEPT ![t] = [l EXCEPT !.message = message, !.level = level,
                                           !.ret = ret, !.log_entry = NoEntry]]
    /\ pc' = [pc EXCEPT ![t] = "log_append"]

\* ------------------------------------------------------------------- Init
DefaultConfig ==
    [simulate_sensors |-> TRUE, detect_real_wifi |-> TRUE, source |-> "camera",
     initial_wifi_strength |-> 85, initial_battery |-> 67, initial_depth |-> 0,
     depth_min_value |-> 0, depth_max_value |-> 100]

\* The state once the module's top level has run: nothing has started.
InitImport(cfg) ==
    /\ config = cfg
    /\ system_status = [wifi_strength |-> cfg.initial_wifi_strength,
                        battery |-> cfg.initial_battery,
                        depth |-> cfg.initial_depth,
                        light |-> FALSE,
                        joystick |-> [x |-> 0, y |-> 0],
                        camera_active |-> TRUE]
    /\ system_logs = <<>>
    /\ camera_stream = [camera |-> None, running |-> FALSE, frame |-> None,
                        lock |-> Free]
    /\ pc = [t \in Threads |-> IF t = MainThread THEN "m_starting" ELSE "idle"]
    /\ loc = [t \in Threads |-> NoLocals]
    /\ sess = [s \in Sessions |-> "new"]
    /\ inbox = [s \in Sessions |-> <<>>]
    /\ nAppended = 0
    /\ nEvents = 0
    /\ tel = [pc |-> "off", real_wifi |-> NoSignal, step |-> 0, ticks |-> 0]
    /\ cap = [pc |-> "off", ret |-> FALSE, ticks |-> 0, failing |-> FALSE,
              failures |-> 0, fallbacks |-> 0]
    /\ vid = [pc |-> "off", frame |-> <<>>, ticks |-> 0]

Sources == {"camera", "url", "dummy"}

\* The entries the main thread appends while starting up with the 'dummy'
\* video source, in order.
StartupEntries ==
    << [id |-> 1, level |-> "INFO", message |-> <<"Starting server...">>],
       [id |-> 2, level |-> "INFO", message |-> <<"Configuration loaded", "dummy">>],
       [id |-> 3, level |-> "INFO", message |-> <<"Dummy mode activated">>],
       [id |-> 4, level |-> "WARNING",
        message |-> <<"Could not connect to source", "dummy">>],
       [id |-> 5, level |-> "INFO", message |-> <<"System monitor started">>],
       [id |-> 6, level |-> "INFO", message |-> <<"Server started at">>] >>

\* The last n elements of a sequence.
LastN(seq, n) == SubSeq(seq, Len(seq) - Min(n, Len(seq)) + 1, Len(seq))

\* The state in which socketio.run starts serving, after a start-up with the
\* 'dummy' video source: the log holds the last start-up entries, the
\* capture, telemetry and video threads have been started.
InitServing(cfg) ==
    /\ config = cfg
    /\ cfg.source = "dummy"
    /\ system_status = [wifi_strength |-> cfg.initial_wifi_strength,
                        battery |-> cfg.initial_battery,
                        depth |-> cfg.initial_depth,
                        light |-> FALSE,
                        joystick |-> [x |-> 0, y |-> 0],
                        camera_active |-> TRUE]
    /\ system_logs = LastN(StartupEntries, max_logs)
    /\ camera_stream = [camera |-> None, running |-> TRUE, frame |-> "dummy",
                        lock |-> Free]
    /\ pc = [t \in Threads |-> IF t = MainThread THEN "m_serve" ELSE "idle"]
    /\ loc = [t \in Threads |-> IF t = MainThread
                                THEN [NoLocals EXCEPT
                                        !.message = <<"Server started at">>,
                                        !.level = "INFO", !.ret = "m_serve",
                                        !.log_entry = StartupEntries[Len(StartupEntries)]]
                                ELSE NoLocals]
    /\ sess = [s \in Sessions |-> "new"]
    /\ inbox = [s \in Sessions |-> <<>>]
    /\ nAppended = Len(StartupEntries)
    /\ nEvents = 0
    /\ tel = [pc |-> "sleep", real_wifi |-> NoSignal, step |-> 0, ticks |-> 0]
    /\ cap = [pc |-> "loop", ret |-> FALSE, ticks |-> 0, failing |-> TRUE,
              failures |-> 1, fallbacks |-> 1]
    /\ vid = [pc |-> "loop", frame |-> <<>>, ticks |-> 0]

Init == InitServing([DefaultConfig EXCEPT !.source = "dummy"])

\* The entry handle_connect appends for the first session.
ConnectedEntry == [id |-> Len(StartupEntries) + 1, level |-> "INFO",
                   message |-> <<"Client connected">>]

\* The state of the serving process once the first session has connected
\* and its handle_connect has returned, nothing else having run: the
\* session holds the initial system_status, the log snapshot and the
\* new_log of its own "Client connected" entry.
InitConnected(cfg) ==
    /\ config = cfg
    /\ cfg.source = "dummy"
    /\ system_status = [wifi_strength |-> cfg.initial_wifi_strength,
                        battery |-> cfg.initial_battery,
                        depth |-> cfg.initial_depth,
                        light |-> FALSE,
                        joystick |-> [x |-> 0, y |-> 0],
                        camera_active |-> TRUE]
    /\ system_logs = LastN(Append(StartupEntries, ConnectedEntry), max_logs)
    /\ camera_stream = [camera |-> None, running |-> TRUE, frame |-> "dummy",
                        lock |-> Free]
    /\ pc = [t \in Threads |-> IF t = MainThread THEN "m_serve" ELSE "idle"]
    /\ loc = [t \in Threads |-> IF t = MainThread
                                THEN [NoLocals EXCEPT
                                        !.message = <<"Server started at">>,
                                        !.level = "INFO", !.ret = "m_serve",
                                        !.log_entry = StartupEntries[Len(StartupEntries)]]
                                ELSE NoLocals]
    /\ sess = [s \in Sessions |-> IF s = 1 THEN "connected" ELSE "new"]
    /\ inbox = [s \in Sessions |->
                  IF s = 1
                  THEN << [event |-> "system_status",
                           data |-> [wifi_strength |-> cfg.initial_wifi_strength,
                                     battery |-> cfg.initial_battery,
                                     depth |-> cfg.initial_depth,
                                     light |-> FALSE]],
                          [event |-> "logs", data |-> LastN(StartupEntries, max_logs)],
                          [event |-> "new_log", data |-> ConnectedEntry] >>
                  ELSE <<>>]
    /\ nAppended = Len(StartupEntries) + 1
    /\ nEvents = 1
    /\ tel = [pc |-> "sleep", real_wifi |-> NoSignal, step |-> 0, ticks |-> 0]
    /\ cap = [pc |-> "loop", ret |-> FALSE, ticks |-> 0, failing |-> TRUE,
              failures |-> 1, fallbacks |-> 1]
    /\ vid = [pc |-> "loop", frame |-> <<>>, ticks |-> 0]

\* The entries the main thread appends while starting up with the 'camera'
\* video source when the device opens, in order.
CameraStartupEntries ==
    << [id |-> 1, level |-> "INFO", message |-> <<"Starting server...">>],
       [id |-> 2, level |-> "INFO", message |-> <<"Configuration loaded", "camera">>],
       [id |-> 3, level |-> "INFO", message |-> <<"Attempting to connect", "camera">>],
       [id |-> 4, level |-> "INFO",
        message |-> <<"Camera started successfully", "camera">>],
       [id |-> 5, level |-> "INFO", message |-> <<"System monitor started">>],
       [id |-> 6, level |-> "INFO", message |-> <<"Server started at">>] >>

\* The state in which socketio.run starts serving, after a start-up with the
\* 'camera' video source whose device opened, the capture thread and the
\* video thread not having run yet: no frame has been produced.
InitStreaming(cfg) ==
    /\ config = cfg
    /\ cfg.source = "camera"
    /\ system_status = [wifi_strength |-> cfg.initial_wifi_strength,
                        battery |-> cfg.initial_battery,
                        depth |-> cfg.initial_depth,
                        light |-> FALSE,
                        joystick |-> [x |-> 0, y |-> 0],
                        camera_active |-> TRUE]
    /\ system_logs = LastN(CameraStartupEntries, max_logs)
    /\ camera_stream = [camera |-> "opened", running |-> TRUE, frame |-> None,
                        lock |-> Free]
    /\ pc = [t \in Threads |-> IF t = MainThread THEN "m_serve" ELSE "idle"]
    /\ loc = [t \in Threads |-> IF t = MainThread
                                THEN [NoLocals EXCEPT
                                        !.message = <<"Server started at">>,
                                        !.level = "INFO", !.ret = "m_serve",
                                        !.log_entry =
                                            CameraStartupEntries[Len(CameraStartupEntries)]]
                                ELSE NoLocals]
    /\ sess = [s \in Sessions |-> "new"]
    /\ inbox = [s \in Sessions |-> <<>>]
    /\ nAppended = Len(CameraStartupEntries)
    /\ nEvents = 0
    /\ tel = [pc |-> "sleep", real_wifi |-> NoSignal, step |-> 0, ticks |-> 0]
    /\ cap = [pc |-> "loop", ret |-> FALSE, ticks |-> 0, failing |-> FALSE,
              failures |-> 0, fallbacks |-> 0]
    /\ vid = [pc |-> "loop", frame |-> <<>>, ticks |-> 0]

\* The process is alive until the main thread falls off the end of the
\* script; every other thread is a daemon thread.
Alive == pc[MainThread] /= "m_exit"

\* ---------------------------------------------------------------- add_log
\* system_logs.append(log_entry).  The entry is created by the caller's
\* thread just before; id stands for the identity of the new dictionary and
\* is the entry's insertion number.
AppendEntryOverLast(logs, entry) ==
    IF logs = <<>> THEN <<entry>> ELSE [logs EXCEPT ![Len(logs)] = entry]

AppendEntry(logs, entry) == Append(logs, entry)

AddLogAppend(t) ==
    /\ Alive
    /\ pc[t] = "log_append"
    /\ LET log_entry == [id |-> nAppended + 1, level |-> loc[t].level,
                         message |-> loc[t].message]
       IN /\ system_logs' = AppendEntry(system_logs, log_entry)
          /\ loc' = [loc EXCEPT ![t].log_entry = log_entry]
    /\ nAppended' = nAppended + 1
    /\ cap' = [cap EXCEPT !.fallbacks = IF loc[t].level \in {"WARNING", "ERROR"}
                                        THEN @ + 1 ELSE @]
    /\ pc' = [pc EXCEPT ![t] = "log_check"]
    /\ UNCHANGED <<config, system_status, camera_stream, sess, inbox, nEvents,
                   tel, vid>>

\* if len(system_logs) > max_logs
OverCapacity(logs) == Len(logs) > max_logs

AddLogCheck(t) ==
    /\ Alive
    /\ pc[t] = "log_check"
    /\ pc' = [pc EXCEPT ![t] = IF OverCapacity(system_logs) THEN "log_pop"
                               ELSE "log_emit"]
    /\ UNCHANGED <<config, system_status, system_logs, camera_stream, loc, sess,
                   inbox, nAppended, nEvents, tel, cap, vid>>

\* system_logs.pop(0)
AddLogPop(t) ==
    /\ Alive
    /\ pc[t] = "log_pop"
    /\ system_logs /= <<>>
    /\ system_logs' = Tail(system_logs)
    /\ pc' = [pc EXCEPT ![t] = "log_emit"]
    /\ UNCHANGED <<config, system_status, camera_stream, loc, sess, inbox,
                   nAppended, nEvents, tel, cap, vid>>

\* socketio.emit('new_log', log_entry), then return to the caller.
AddLogEmit(t) ==
    /\ Alive
    /\ pc[t] = "log_emit"
    /\ inbox' = Broadcast(inbox, "new_log", loc[t].log_entry)
    /\ pc' = [pc EXCEPT ![t] = loc[t].ret]
    /\ loc' = [loc EXCEPT ![t] = IF loc[t].ret = "idle" THEN NoLocals ELSE @]
    /\ UNCHANGED <<config, system_status, system_logs, camera_stream, sess,
                   nAppended, nEvents, tel, cap, vid>>

AddLog(t) == AddLogAppend(t) \/ AddLogCheck(t) \/ AddLogPop(t) \/ AddLogEmit(t)

\* ---------------------------------------------------- CameraStream.start
\* self.camera = cv2.VideoCapture(...) and the first add_log of start().
\* The capture object opens or not; reading the configuration or creating
\* the capture may raise.
CameraStartOpen(t) ==
    /\ pc[t] = "cam_start"
    /\ \/ /\ config.source \in {"camera", "url"}
          /\ \E opened \in BOOLEAN :
                camera_stream' = [camera_stream EXCEPT
                                    !.camera = IF opened THEN "opened" ELSE "closed"]
          /\ CallAddLog(t, loc[t], <<"Attempting to connect", config.source>>,
                        "INFO", "cam_check")
       \/ /\ config.source = "dummy"
          /\ camera_stream' = [camera_stream EXCEPT !.camera = None]
          /\ CallAddLog(t, loc[t], <<"Dummy mode activated">>, "INFO", "cam_check")
       \/ /\ config.source \notin {"camera", "url", "dummy"}
          /\ pc' = [pc EXCEPT ![t] = "cam_check"]
          /\ UNCHANGED <<camera_stream, loc>>
       \/ /\ config.source \in {"camera", "url"}
          /\ pc' = [pc EXCEPT ![t] = "cam_except"]
          /\ UNCHANGED <<camera_stream, loc>>
    /\ UNCHANGED <<config, system_status, system_logs, sess, inbox, nAppended,
                   nEvents, tel, cap, vid>>

\* if self.camera and self.camera.isOpened()
CameraUsable(cs) == cs.camera = "opened"

\* create_dummy_frame: with self.lock: self.frame = frame
DummyFrame(cs) == [cs EXCEPT !.frame = "dummy"]

\* The configured branch of start(): set resolution and fps (which may
\* raise), then log success.
CameraStartConfigure(t) ==
    /\ pc[t] = "cam_check"
    /\ CameraUsable(camera_stream)
    /\ \/ CallAddLog(t, loc[t], <<"Camera started successfully", config.source>>,
                     "INFO", "cam_run")
       \/ /\ pc' = [pc EXCEPT ![t] = "cam_except"]
          /\ UNCHANGED loc
    /\ UNCHANGED <<config, system_status, system_logs, camera_stream, sess,
                   inbox, nAppended, nEvents, tel, cap, vid>>

\* The fallback branch of start(): create_dummy_frame(), then a WARNING.
CameraStartFallback(t) ==
    /\ pc[t] = "cam_check"
    /\ ~CameraUsable(camera_stream)
    /\ camera_stream.lock = Free
    /\ camera_stream' = DummyFrame(camera_stream)
    /\ cap' = [cap EXCEPT !.failing = TRUE, !.failures = @ + 1]
    /\ CallAddLog(t, loc[t], <<"Could not connect to source", config.source>>,
                  "WARNING", "cam_run")
    /\ UNCHANGED <<config, system_status, system_logs, sess, inbox, nAppended,
                   nEvents, tel, vid>>

\* self.running = True; self.thread.start()
CameraStartRun(t) ==
    /\ pc[t] = "cam_run"
    /\ camera_stream' = [camera_stream EXCEPT !.running = TRUE]
    /\ cap' = [cap EXCEPT !.pc = "loop"]
    /\ pc' = [pc EXCEPT ![t] = "m_monitor"]
    /\ UNCHANGED <<config, system_status, system_logs, loc, sess, inbox,
                   nAppended, nEvents, tel, vid>>

\* except Exception as e: add_log(..., "ERROR")
CameraStartExcept(t) ==
    /\ pc[t] = "cam_except"
    /\ cap' = [cap EXCEPT !.failing = TRUE, !.failures = @ + 1]
    /\ CallAddLog(t, loc[t], <<"Error starting camera">>, "ERROR", "cam_except_dummy")
    /\ UNCHANGED <<config, system_status, system_logs, camera_stream, sess,
                   inbox, nAppended, nEvents, tel, vid>>

\* ... then self.create_dummy_frame(); running stays False and no capture
\* thread is started.
CameraStartExceptDummy(t) ==
    /\ pc[t] = "cam_except_dummy"
    /\ camera_stream.lock = Free
    /\ camera_stream' = DummyFrame(camera_stream)
    /\ pc' = [pc EXCEPT ![t] = "m_monitor"]
    /\ UNCHANGED <<config, system_status, system_logs, loc, sess, inbox,
                   nAppended, nEvents, tel, cap, vid>>

CameraStart(t) ==
    \/ CameraStartOpen(t)
    \/ CameraStartConfigure(t)
    \/ CameraStartFallback(t)
    \/ CameraStartRun(t)
    \/ CameraStartExcept(t)
    \/ CameraStartExceptDummy(t)

\* ------------------------------------------- CameraStream._capture_frames
\* while self.running: if self.camera and self.camera.isOpened().  An
\* unusable camera makes a dummy frame; cap.ret tells which frame the
\* iteration is about to store.
CapCheck ==
    /\ Alive
    /\ cap.pc = "loop"
    /\ cap.ticks < MaxTicks
    /\ IF ~camera_stream.running
       THEN cap' = [cap EXCEPT !.pc = "done"]
       ELSE IF CameraUsable(camera_stream)
       THEN cap' = [cap EXCEPT !.pc = "read"]
       ELSE cap' = [cap EXCEPT !.pc = "store", !.ret = FALSE,
                               !.failing = TRUE,
                               !.failures = IF ~cap.failing THEN @ + 1 ELSE @]
    /\ UNCHANGED <<config, system_status, system_logs, camera_stream, pc, loc,
                   sess, inbox, nAppended, nEvents, tel, vid>>

\* ret, frame = self.camera.read(): succeeds or fails on an opened device,
\* fails on one that has been released since the test.
CapRead ==
    /\ Alive
    /\ cap.pc = "read"
    /\ \E ret \in IF CameraUsable(camera_stream) THEN BOOLEAN ELSE {FALSE} :
          cap' = [cap EXCEPT !.pc = "store", !.ret = ret,
                             !.failing = ~ret,
                             !.failures = IF ~ret /\ ~cap.failing
                                          THEN @ + 1 ELSE @]
    /\ UNCHANGED <<config, system_status, system_logs, camera_stream, pc, loc,
                   sess, inbox, nAppended, nEvents, tel, vid>>

\* with self.lock: self.frame = frame
StoreFrame(cs, frame) == [cs EXCEPT !.frame = frame]

CapStore ==
    /\ Alive
    /\ cap.pc = "store"
    /\ camera_stream.lock = Free
    /\ camera_stream' = IF cap.ret THEN StoreFrame(camera_stream, "real")
                        ELSE DummyFrame(camera_stream)
    /\ cap' = [cap EXCEPT !.pc = "sleep"]
    /\ UNCHANGED <<config, system_status, system_logs, pc, loc, sess, inbox,
                   nAppended, nEvents, tel, vid>>

\* time.sleep(fps_delay)
CapSleep ==
    /\ Alive
    /\ cap.pc = "sleep"
    /\ cap' = [cap EXCEPT !.pc = "loop", !.ticks = @ + 1]
    /\ UNCHANGED <<config, system_status, system_logs, camera_stream, pc, loc,
                   sess, inbox, nAppended, nEvents, tel, vid>>

Capture == CapCheck \/ CapRead \/ CapStore \/ CapSleep

\* ------------------------------------------ CameraStream.get_frame_base64
VideoThread == NHandlers + 1

\* The data URL of a frame; the empty tuple stands for None.
NoUrl == <<>>

\* Mutant: a data URL made whether or not a frame exists.
FrameBase64Always(frame) == <<"data:image/jpeg;base64", frame>>

\* if self.frame is not None: return f"data:image/jpeg;base64,{...}"
FrameBase64(frame) ==
    IF frame /= None THEN <<"data:image/jpeg;base64", frame>> ELSE NoUrl

\* with self.lock: entered by thread who.
LockFrame(cs, who) == [cs EXCEPT !.lock = who]
\* The with block is left.
UnlockFrame(cs) == [cs EXCEPT !.lock = Free]

\* --------------------------------------------------- video_stream_thread
\* if system_status['camera_active']: get_frame_base64() takes the lock.
VidCheck ==
    /\ Alive
    /\ vid.pc = "loop"
    /\ vid.ticks < MaxTicks
    /\ IF system_status.camera_active
       THEN /\ camera_stream.lock = Free
            /\ camera_stream' = LockFrame(camera_stream, VideoThread)
            /\ vid' = [vid EXCEPT !.pc = "encode"]
       ELSE /\ vid' = [vid EXCEPT !.pc = "loop", !.ticks = @ + 1]
            /\ UNCHANGED camera_stream
    /\ UNCHANGED <<config, system_status, system_logs, pc, loc, sess, inbox,
                   nAppended, nEvents, tel, cap>>

\* The frame is encoded inside the with block, then the lock is released.
VidEncode ==
    /\ Alive
    /\ vid.pc = "encode"
    /\ vid' = [vid EXCEPT !.pc = "send", !.frame = FrameBase64(camera_stream.frame)]
    /\ camera_stream' = UnlockFrame(camera_stream)
    /\ UNCHANGED <<config, system_status, system_logs, pc, loc, sess, inbox,
                   nAppended, nEvents, tel, cap>>

\* if frame: socketio.emit('video_frame', ...); time.sleep(delay)
VidSend ==
    /\ Alive
    /\ vid.pc = "send"
    /\ inbox' = IF vid.frame /= NoUrl
                THEN Broadcast(inbox, "video_frame", [frame |-> vid.frame])
                ELSE inbox
    /\ vid' = [vid EXCEPT !.pc = "loop", !.frame = NoUrl, !.ticks = @ + 1]
    /\ UNCHANGED <<config, system_status, system_logs, camera_stream, pc, loc,
                   sess, nAppended, nEvents, tel, cap>>

Video == VidCheck \/ VidEncode \/ VidSend

\* ------------------------------------------------------------ main thread
\* add_log("Starting server...")
MainStarting ==
    /\ pc[MainThread] = "m_starting"
    /\ CallAddLog(MainThread, loc[MainThread], <<"Starting server...">>, "INFO",
                  "m_config")
    /\ UNCHANGED <<config, system_status, system_logs, camera_stream, sess,
                   inbox, nAppended, nEvents, tel, cap, vid>>

\* add_log("Configuration loaded: ...")
MainConfigLoaded ==
    /\ pc[MainThread] = "m_config"
    /\ CallAddLog(MainThread, loc[MainThread], <<"Configuration loaded", config.source>>,
                  "INFO", "cam_start")
    /\ UNCHANGED <<config, system_status, system_logs, camera_stream, sess,
                   inbox, nAppended, nEvents, tel, cap, vid>>

\* system_thread.start(); add_log("System monitor started")
MainMonitor ==
    /\ pc[MainThread] = "m_monitor"
    /\ tel' = [tel EXCEPT !.pc = "sleep"]
    /\ CallAddLog(MainThread, loc[MainThread], <<"System monitor started">>,
                  "INFO", "m_video")
    /\ UNCHANGED <<config, system_status, system_logs, camera_stream, sess,
                   inbox, nAppended, nEvents, cap, vid>>

\* video_thread.start(); add_log("Server started at ...")
MainVideo ==
    /\ pc[MainThread] = "m_video"
    /\ vid' = [vid EXCEPT !.pc = "loop"]
    /\ CallAddLog(MainThread, loc[MainThread], <<"Server started at">>, "INFO",
                  "m_serve")
    /\ UNCHANGED <<config, system_status, system_logs, camera_stream, sess,
                   inbox, nAppended, nEvents, tel, cap>>

\* socketio.run(...) is serving while pc[MainThread] = "m_serve".
Serving == pc[MainThread] = "m_serve"

\* except KeyboardInterrupt: add_log("Closing server...")
MainInterrupt ==
    /\ pc[MainThread] = "m_serve"
    /\ CallAddLog(MainThread, loc[MainThread], <<"Closing server...">>, "INFO",
                  "m_stop")
    /\ UNCHANGED <<config, system_status, system_logs, camera_stream, sess,
                   inbox, nAppended, nEvents, tel, cap, vid>>

\* CameraStream.stop(): self.running = False
StopRunning(cs) == [cs EXCEPT !.running = FALSE]

\* CameraStream.stop(): if self.camera: self.camera.release().  A capture
\* object is true whether it opened or not; a released one is not opened.
StopRelease(cs) == [cs EXCEPT !.camera = IF @ = None THEN None ELSE "released"]

\* camera_stream.stop() in the KeyboardInterrupt branch, first statement.
MainStop ==
    /\ pc[MainThread] = "m_stop"
    /\ camera_stream' = StopRunning(camera_stream)
    /\ pc' = [pc EXCEPT ![MainThread] = "m_release"]
    /\ UNCHANGED <<config, system_status, system_logs, loc, sess, inbox,
                   nAppended, nEvents, tel, cap, vid>>

\* The rest of stop(); stop() returns and the script has reached its end
\* (pc "m_stopped"), the daemon threads still running.
MainRelease ==
    /\ pc[MainThread] = "m_release"
    /\ camera_stream' = StopRelease(camera_stream)
    /\ pc' = [pc EXCEPT ![MainThread] = "m_stopped"]
    /\ UNCHANGED <<config, system_status, system_logs, loc, sess, inbox,
                   nAppended, nEvents, tel, cap, vid>>

\* The interpreter exits after stop() has returned.
MainExit ==
    /\ pc[MainThread] = "m_stopped"
    /\ pc' = [pc EXCEPT ![MainThread] = "m_exit"]
    /\ UNCHANGED <<config, system_status, system_logs, camera_stream, loc, sess,
                   inbox, nAppended, nEvents, tel, cap, vid>>

\* socketio.run(...) ends in any other way (it returns, or raises an
\* exception other than KeyboardInterrupt): the script ends there.
MainReturn ==
    /\ pc[MainThread] = "m_serve"
    /\ pc' = [pc EXCEPT ![MainThread] = "m_exit"]
    /\ UNCHANGED <<config, system_status, system_logs, camera_stream, loc, sess,
                   inbox, nAppended, nEvents, tel, cap, vid>>

\* The main thread before socketio.run.
MainStartup ==
    \/ MainStarting
    \/ MainConfigLoaded
    \/ CameraStart(MainThread)
    \/ MainMonitor
    \/ MainVideo

\* The main thread from socketio.run on.
MainServe ==
    \/ MainInterrupt
    \/ MainStop
    \/ MainRelease
    \/ MainExit
    \/ MainReturn
    \/ AddLog(MainThread)

\* --------------------------------------------------------- event handlers
\* An inbound event is dispatched to a free handler thread while the server
\* is serving.  Handler threads are interchangeable: the free thread with
\* the lowest number takes the event.
Dispatch(t) ==
    /\ Serving
    /\ pc[t] = "idle"
    /\ \A u \in Handlers : u < t => pc[u] /= "idle"
    /\ nEvents < MaxEvents
    /\ nEvents' = nEvents + 1

\* The handler's thread ends: by returning, or with the exception exc.
Finish(t, exc) ==
    /\ pc' = [pc EXCEPT ![t] = "idle"]
    /\ loc' = [loc EXCEPT ![t] = NoLocals]

\* Names bound in the module's global namespace by its import statements
\* and its top-level definitions that the handlers look up.
ModuleGlobals == {"Flask", "render_template_string", "SocketIO", "emit", "cv2",
                  "base64", "threading", "time", "json", "yaml", "os",
                  "subprocess", "re", "datetime", "logging", "logger", "config",
                  "app", "socketio", "system_status", "system_logs", "add_log",
                  "camera_stream"}

\* The number of the telemetry tick that wrote the current wifi_strength,
\* and of the one that wrote the current battery (0: no tick yet).  A tick
\* writes wifi_strength, then battery, then emits.
WifiTickNo == tel.ticks + (IF tel.pc \in {"battery", "emit"} THEN 1 ELSE 0)
BatteryTickNo == tel.ticks + (IF tel.pc = "emit" THEN 1 ELSE 0)

\* handle_connect: 'from flask import request' makes request a local name;
\* the payload's first item reads system_status['wifi_strength'].  Sessions
\* are interchangeable: they connect in the order of their numbers.
ConnectReadWifi(t, s) ==
    /\ Dispatch(t)
    /\ sess[s] = "new"
    /\ \A r \in Sessions : r < s => sess[r] /= "new"
    /\ sess' = [sess EXCEPT ![s] = "connecting"]
    /\ loc' = [loc EXCEPT ![t] = [NoLocals EXCEPT !.sid = s,
                 !.data = [wifi_strength |-> system_status.wifi_strength,
                           battery |-> 0, depth |-> 0, light |-> FALSE],
                 !.tick.wifi = WifiTickNo]]
    /\ pc' = [pc EXCEPT ![t] = "conn_battery"]
    /\ UNCHANGED <<config, system_status, system_logs, camera_stream, inbox,
                   nAppended, tel, cap, vid>>

ConnectReadBattery(t) ==
    /\ Alive
    /\ pc[t] = "conn_battery"
    /\ loc' = [loc EXCEPT ![t].data.battery = system_status.battery,
                          ![t].tick.battery = BatteryTickNo]
    /\ pc' = [pc EXCEPT ![t] = "conn_depth"]
    /\ UNCHANGED <<config, system_status, system_logs, camera_stream, sess,
                   inbox, nAppended, nEvents, tel, cap, vid>>

ConnectReadDepth(t) ==
    /\ Alive
    /\ pc[t] = "conn_depth"
    /\ loc' = [loc EXCEPT ![t].data.depth = system_status.depth]
    /\ pc' = [pc EXCEPT ![t] = "conn_light"]
    /\ UNCHANGED <<config, system_status, system_logs, camera_stream, sess,
                   inbox, nAppended, nEvents, tel, cap, vid>>

\* Mutant: the initial payload broadcast to every session.
ConnectStatusToAll(box, s, payload) == Broadcast(box, "system_status", payload)

\* The recipients of handle_connect's emit('system_status', ...): emit
\* without broadcast=True goes to the requesting session.
ConnectStatusTo(box, s, payload) == Unicast(box, s, "system_status", payload)

\* The payload's last item reads system_status['light']; emit('system_status').
ConnectEmitStatus(t) ==
    /\ Alive
    /\ pc[t] = "conn_light"
    /\ inbox' = ConnectStatusTo(inbox, loc[t].sid,
                                [loc[t].data EXCEPT !.light = system_status.light])
    /\ loc' = [loc EXCEPT ![t].data = NoData]
    /\ pc' = [pc EXCEPT ![t] = "conn_logs"]
    /\ UNCHANGED <<config, system_status, system_logs, camera_stream, sess,
                   nAppended, nEvents, tel, cap, vid>>

\* emit('logs', system_logs); add_log("Client connected")
ConnectEmitLogs(t) ==
    /\ Alive
    /\ pc[t] = "conn_logs"
    /\ inbox' = Unicast(inbox, loc[t].sid, "logs", system_logs)
    /\ CallAddLog(t, loc[t], <<"Client connected">>, "INFO", "conn_done")
    /\ UNCHANGED <<config, system_status, system_logs, camera_stream, sess,
                   nAppended, nEvents, tel, cap, vid>>

\* handle_connect returns: the session is connected and may send events.
ConnectDone(t) ==
    /\ Alive
    /\ pc[t] = "conn_done"
    /\ sess' = [sess EXCEPT ![loc[t].sid] = "connected"]
    /\ Finish(t, None)
    /\ UNCHANGED <<config, system_status, system_logs, camera_stream, inbox,
                   nAppended, nEvents, tel, cap, vid>>

HandleConnect(t) ==
    \/ \E s \in Sessions : ConnectReadWifi(t, s)
    \/ ConnectReadBattery(t)
    \/ ConnectReadDepth(t)
    \/ ConnectEmitStatus(t)
    \/ ConnectEmitLogs(t)
    \/ ConnectDone(t)

\* A 'disconnect' event of session s is dispatched.
DisconnectBegin(t, s) ==
    /\ Dispatch(t)
    /\ sess[s] = "connected"
    /\ sess' = [sess EXCEPT ![s] = "disconnecting"]
    /\ loc' = [loc EXCEPT ![t] = [NoLocals EXCEPT !.sid = s]]
    /\ pc' = [pc EXCEPT ![t] = "disc_info"]
    /\ UNCHANGED <<config, system_status, system_logs, camera_stream, inbox,
                   nAppended, tel, cap, vid>>

\* handle_disconnect: logger.info(f"... {request.sid}") looks request up in
\* the module globals, and raises NameError when it is not bound there;
\* otherwise add_log("Client disconnected").
DisconnectInfo(t) ==
    /\ Alive
    /\ pc[t] = "disc_info"
    /\ IF "request" \in ModuleGlobals
       THEN CallAddLog(t, loc[t], <<"Client disconnected">>, "INFO", "disc_done")
       ELSE /\ pc' = [pc EXCEPT ![t] = "disc_done"]
            /\ loc' = [loc EXCEPT ![t].exc = "NameError"]
    /\ UNCHANGED <<config, system_status, system_logs, camera_stream, sess,
                   inbox, nAppended, nEvents, tel, cap, vid>>

\* The handler's thread ends and the session leaves the registry.
DisconnectDone(t) ==
    /\ Alive
    /\ pc[t] = "disc_done"
    /\ sess' = [sess EXCEPT ![loc[t].sid] = "gone"]
    /\ Finish(t, loc[t].exc)
    /\ UNCHANGED <<config, system_status, system_logs, camera_stream, inbox,
                   nAppended, nEvents, tel, cap, vid>>

HandleDisconnect(t) ==
    \/ \E s \in Sessions : DisconnectBegin(t, s)
    \/ DisconnectInfo(t)
    \/ DisconnectDone(t)

\* Payloads of joystick_move (coordinates in hundredths) and depth_change,
\* well-formed, out of range, and lacking a key.
JoystickInputs == {[x |-> 50, y |-> -25], [x |-> 170, y |-> 0], [y |-> 10]}
DepthInputs == {[value |-> 42], [value |-> 150], [depth |-> 7]}

\* Mutant: the pair clamped to [-1,1] (hundredths) before it is stored.
StoreJoystickClamped(status, data) ==
    [status EXCEPT !.joystick = [k \in DOMAIN data |-> Max(-100, Min(100, data[k]))]]

\* Mutant: the joystick command also switching camera_active off.
StoreJoystickCameraOff(status, data) ==
    [status EXCEPT !.joystick = data, !.camera_active = FALSE]

\* system_status['joystick'] = data
StoreJoystick(status, data) == [status EXCEPT !.joystick = data]

\* handle_joystick: system_status['joystick'] = data, then the f-string
\* reads data['x'] and data['y'] (KeyError when absent) and add_log.
HandleJoystick(t) ==
    \E s \in Sessions, data \in JoystickInputs :
        /\ Dispatch(t)
        /\ sess[s] = "connected"
        /\ system_status' = StoreJoystick(system_status, data)
        /\ IF {"x", "y"} \subseteq DOMAIN data
           THEN CallAddLog(t, [NoLocals EXCEPT !.sid = s],
                           <<"Joystick", data.x, data.y>>, "INFO", "idle")
           ELSE UNCHANGED <<pc, loc>>
        /\ UNCHANGED <<config, system_logs, camera_stream, sess, inbox,
                       nAppended, tel, cap, vid>>

\* Mutant: the depth only ever raised.
StoreDepthMax(status, data) == [status EXCEPT !.depth = Max(@, data.value)]

\* Mutant: the depth command also resetting the battery reading.
StoreDepthResetsBattery(status, data) ==
    [status EXCEPT !.depth = data.value, !.battery = 100]

\* system_status['depth'] = data['value']
StoreDepth(status, data) == [status EXCEPT !.depth = data.value]

\* handle_depth: system_status['depth'] = data['value'] (KeyError when
\* absent), then add_log.
HandleDepth(t) ==
    \E s \in Sessions, data \in DepthInputs :
        /\ Dispatch(t)
        /\ sess[s] = "connected"
        /\ IF "value" \in DOMAIN data
           THEN /\ system_status' = StoreDepth(system_status, data)
                /\ CallAddLog(t, [NoLocals EXCEPT !.sid = s],
                              <<"Depth changed to", data.value>>, "INFO", "idle")
           ELSE UNCHANGED <<system_status, pc, loc>>
        /\ UNCHANGED <<config, system_logs, camera_stream, sess, inbox,
                       nAppended, tel, cap, vid>>

\* Mutant: the light switched on instead of inverted.
ToggleOn(light) == TRUE

\* not system_status['light']
Toggle(light) == ~light

\* handle_light reads system_status['light'] ...
LightRead(t) ==
    \E s \in Sessions :
        /\ Dispatch(t)
        /\ sess[s] = "connected"
        /\ loc' = [loc EXCEPT ![t] = [NoLocals EXCEPT !.sid = s,
                                        !.data = [light |-> system_status.light]]]
        /\ pc' = [pc EXCEPT ![t] = "light_write"]
        /\ UNCHANGED <<config, system_status, system_logs, camera_stream, sess,
                       inbox, nAppended, tel, cap, vid>>

\* ... and stores its negation.
LightWrite(t) ==
    /\ Alive
    /\ pc[t] = "light_write"
    /\ system_status' = [system_status EXCEPT !.light = Toggle(loc[t].data.light)]
    /\ pc' = [pc EXCEPT ![t] = "light_status"]
    /\ UNCHANGED <<config, system_logs, camera_stream, loc, sess, inbox,
                   nAppended, nEvents, tel, cap, vid>>

\* status = "ON" if system_status['light'] else "OFF"
LightName(light) == IF light THEN "ON" ELSE "OFF"

\* status is computed from a fresh read; add_log(f"Light {status}")
LightStatus(t) ==
    /\ Alive
    /\ pc[t] = "light_status"
    /\ CallAddLog(t, loc[t], <<"Light", LightName(system_status.light)>>, "INFO",
                  "light_emit")
    /\ UNCHANGED <<config, system_status, system_logs, camera_stream, sess,
                   inbox, nAppended, nEvents, tel, cap, vid>>

\* The recipients of emit('light_status', ..., broadcast=True).
LightStatusTo(box, s, payload) == Broadcast(box, "light_status", payload)

LightEmit(t) ==
    /\ Alive
    /\ pc[t] = "light_emit"
    /\ inbox' = LightStatusTo(inbox, loc[t].sid, [status |-> system_status.light])
    /\ Finish(t, None)
    /\ UNCHANGED <<config, system_status, system_logs, camera_stream, sess,
                   nAppended, nEvents, tel, cap, vid>>

HandleLight(t) == LightRead(t) \/ LightWrite(t) \/ LightStatus(t) \/ LightEmit(t)

\* handle_photo: add_log("Photo captured", "SUCCESS") ...
PhotoLog(t) ==
    \E s \in Sessions :
        /\ Dispatch(t)
        /\ sess[s] = "connected"
        /\ CallAddLog(t, [NoLocals EXCEPT !.sid = s], <<"Photo captured">>,
                      "SUCCESS", "photo_emit")
        /\ UNCHANGED <<config, system_status, system_logs, camera_stream, sess,
                       inbox, nAppended, tel, cap, vid>>

\* Mutant: the acknowledgement broadcast to every session.
PhotoTakenToAll(box, s, payload) == Broadcast(box, "photo_taken", payload)

\* The recipients of emit('photo_taken', ...): the requesting session.
PhotoTakenTo(box, s, payload) == Unicast(box, s, "photo_taken", payload)

\* ... then emit('photo_taken', {'timestamp': ...}) to the requester.
PhotoEmit(t) ==
    /\ Alive
    /\ pc[t] = "photo_emit"
    /\ inbox' = PhotoTakenTo(inbox, loc[t].sid, [timestamp |-> "now"])
    /\ Finish(t, None)
    /\ UNCHANGED <<config, system_status, system_logs, camera_stream, sess,
                   nAppended, nEvents, tel, cap, vid>>

HandlePhoto(t) == PhotoLog(t) \/ PhotoEmit(t)

\* handle_get_frame: camera_stream.get_frame_base64() enters the with block.
GetFrameLock(t) ==
    \E s \in Sessions :
        /\ Dispatch(t)
        /\ sess[s] = "connected"
        /\ camera_stream.lock = Free
        /\ camera_stream' = LockFrame(camera_stream, t)
        /\ loc' = [loc EXCEPT ![t] = [NoLocals EXCEPT !.sid = s]]
        /\ pc' = [pc EXCEPT ![t] = "gf_encode"]
        /\ UNCHANGED <<config, system_status, system_logs, sess, inbox,
                       nAppended, tel, cap, vid>>

\* The frame is encoded inside the with block, then the lock is released.
GetFrameEncode(t) ==
    /\ Alive
    /\ pc[t] = "gf_encode"
    /\ loc' = [loc EXCEPT ![t].data = [frame |-> FrameBase64(camera_stream.frame)]]
    /\ camera_stream' = UnlockFrame(camera_stream)
    /\ pc' = [pc EXCEPT ![t] = "gf_emit"]
    /\ UNCHANGED <<config, system_status, system_logs, sess, inbox, nAppended,
                   nEvents, tel, cap, vid>>

\* Mutant: the pulled frame broadcast to every session.
GetFrameToAll(box, s, payload) == Broadcast(box, "video_frame", payload)

\* The recipients of handle_get_frame's emit('video_frame', ...): the
\* requesting session.
GetFrameTo(box, s, payload) == Unicast(box, s, "video_frame", payload)

\* if frame: emit('video_frame', {'frame': frame})
GetFrameEmit(t) ==
    /\ Alive
    /\ pc[t] = "gf_emit"
    /\ inbox' = IF loc[t].data.frame /= NoUrl
                THEN GetFrameTo(inbox, loc[t].sid, loc[t].data)
                ELSE inbox
    /\ Finish(t, None)
    /\ UNCHANGED <<config, system_status, system_logs, camera_stream, sess,
                   nAppended, nEvents, tel, cap, vid>>

HandleGetFrame(t) == GetFrameLock(t) \/ GetFrameEncode(t) \/ GetFrameEmit(t)

\* Every step of handler thread t that the session commands can take.
Handler(t) ==
    \/ HandleConnect(t)
    \/ HandleDisconnect(t)
    \/ HandleJoystick(t)
    \/ HandleDepth(t)
    \/ HandleLight(t)
    \/ HandlePhoto(t)
    \/ HandleGetFrame(t)
    \/ AddLog(t)

\* ------------------------------------------------- update_system_status
\* What the two probes of get_wifi_signal_strength find.  iwconfig: the
\* program is missing or times out ("missing"), runs without printing a
\* 'Signal level=' line ("nosignal"), or prints one with the given dBm.
\* /proc/net/wireless: absent ("missing"), without a parsable third line
\* ("short"), or with the given number as the third field of its third
\* line, which float() accepts with either sign.
IwconfigOutcomes ==
    {[kind |-> "missing", dbm |-> 0], [kind |-> "nosignal", dbm |-> 0]}
        \cup {[kind |-> "signal", dbm |-> d] : d \in {-95, -60, -20}}

ProcOutcomes ==
    {[kind |-> "missing", quality |-> 0], [kind |-> "short", quality |-> 0]}
        \cup {[kind |-> "quality", quality |-> q] : q \in {-7, 0, 35, 77}}

\* max(0, min(100, (signal_dbm + 90) * 100 // 60))
DbmToPercentage(signal_dbm) == Max(0, Min(100, ((signal_dbm + 90) * 100) \div 60))

\* int(x) for the quotient n / d, d > 0: truncation towards zero.
IntOfQuotient(n, d) == IF n >= 0 THEN n \div d ELSE -((-n) \div d)

\* min(100, int((quality / 70) * 100))
QualityToPercentage(quality) == Min(100, IntOfQuotient(quality * 100, 70))

get_wifi_signal_strength(iw, pr) ==
    IF iw.kind = "missing" THEN NoSignal
    ELSE IF iw.kind = "signal" THEN Signal(DbmToPercentage(iw.dbm))
    ELSE IF pr.kind = "quality" THEN Signal(QualityToPercentage(pr.quality))
    ELSE NoSignal

\* Every result the lookup can give.
LookupResults ==
    {get_wifi_signal_strength(iw, pr) : iw \in IwconfigOutcomes, pr \in ProcOutcomes}

\* random.randint(-5, 5) and random.randint(-2, 1)
WifiSteps == -5..5
BatterySteps == -2..1

\* Mutant: the WiFi walk with its floor at 0 instead of 10.
SimulateWifiFloorZero(wifi, step) == Max(0, Min(100, wifi + step))

\* max(10, min(100, system_status['wifi_strength'] + random.randint(-5, 5)))
SimulateWifi(wifi, step) == Max(10, Min(100, wifi + step))

\* Mutant: the battery walk without the clamp.
SimulateBatteryUnclamped(battery, step) == battery + step

\* max(0, min(100, system_status['battery'] + random.randint(-2, 1)))
SimulateBattery(battery, step) == Max(0, Min(100, battery + step))

\* time.sleep(interval) is over; the WiFi part of a tick.  real_wifi is the
\* lookup's result, or None when detect_real_wifi is off.
TelWifi ==
    /\ Alive
    /\ tel.pc = "sleep"
    /\ tel.ticks < MaxTicks
    /\ \E result \in LookupResults, step \in WifiSteps :
          LET real_wifi == IF config.detect_real_wifi THEN result ELSE NoSignal
              simulated == ~real_wifi.found /\ config.simulate_sensors
          IN /\ system_status' =
                   [system_status EXCEPT !.wifi_strength =
                       IF real_wifi.found THEN real_wifi.percentage
                       ELSE IF simulated THEN SimulateWifi(@, step)
                       ELSE @]
             /\ tel' = [tel EXCEPT !.pc = "battery", !.real_wifi = real_wifi,
                                   !.step = IF simulated THEN step ELSE 0]
    /\ UNCHANGED <<config, system_logs, camera_stream, pc, loc, sess, inbox,
                   nAppended, nEvents, cap, vid>>

\* The battery part of a tick.
TelBattery ==
    /\ Alive
    /\ tel.pc = "battery"
    /\ IF config.simulate_sensors
       THEN \E step \in BatterySteps :
               system_status' = [system_status EXCEPT
                                   !.battery = SimulateBattery(@, step)]
       ELSE UNCHANGED system_status
    /\ tel' = [tel EXCEPT !.pc = "emit", !.step = 0]
    /\ UNCHANGED <<config, system_logs, camera_stream, pc, loc, sess, inbox,
                   nAppended, nEvents, cap, vid>>

\* The dictionary update_system_status publishes.
TelemetryPayloadWhole(status) ==
    [wifi_strength |-> status.wifi_strength, battery |-> status.battery,
     depth |-> status.depth, light |-> status.light]

TelemetryPayload(status) ==
    [wifi_strength |-> status.wifi_strength, battery |-> status.battery]

\* socketio.emit('system_status', {wifi_strength, battery}), then the next
\* time.sleep(interval).
TelEmit ==
    /\ Alive
    /\ tel.pc = "emit"
    /\ inbox' = Broadcast(inbox, "system_status", TelemetryPayload(system_status))
    /\ tel' = [tel EXCEPT !.pc = "sleep", !.ticks = @ + 1]
    /\ UNCHANGED <<config, system_status, system_logs, camera_stream, pc, loc,
                   sess, nAppended, nEvents, cap, vid>>

Telemetry == TelWifi \/ TelBattery \/ TelEmit

\* --------------------------------------------------------- specifications
\* Spec: the server while it serves; the main thread and the handler threads
\* of the session commands run concurrently.
Next ==
    \/ MainServe
    \/ \E t \in Handlers : Handler(t)

Spec == Init /\ [][Next]_vars

\* SpecSeq: the same, with the session commands handled one after the other
\* (no two handler threads are inside a handler at the same time).
NextSeq ==
    \/ MainServe
    \/ \E t \in Handlers :
          /\ \A u \in Handlers \ {t} : pc[u] = "idle"
          /\ Handler(t)

SpecSeq == Init /\ [][NextSeq]_vars

\* SpecTelemetry: the telemetry thread while the server serves, for every
\* setting of simulate_sensors and detect_real_wifi and for initial readings
\* in the middle and at both ends of the percentage range.
InitTelemetry ==
    \E sim \in BOOLEAN, det \in BOOLEAN, w \in {12, 85, 100}, b \in {0, 67, 100} :
        InitServing([DefaultConfig EXCEPT !.source = "dummy",
                                          !.simulate_sensors = sim,
                                          !.detect_real_wifi = det,
                                          !.initial_wifi_strength = w,
                                          !.initial_battery = b])

NextTelemetry == Telemetry

SpecTelemetry == InitTelemetry /\ [][NextTelemetry]_vars

\* SpecCamera: from the import of the module on: the main thread's start-up
\* with every video source and every outcome of opening it, the capture
\* thread and the video push thread.
InitCamera == \E src \in Sources : InitImport([DefaultConfig EXCEPT !.source = src])

NextCamera ==
    \/ MainStartup
    \/ MainServe
    \/ Capture
    \/ Video

SpecCamera == InitCamera /\ [][NextCamera]_vars

\* SpecVideo: the server while it serves with an opened camera: the video
\* push thread, the capture thread for MaxSideTicks iterations (its first
\* iteration produces the first frame, real or dummy), and sessions that
\* connect, their events handled one after the other.
InitVideo == InitStreaming(DefaultConfig)

NextVideo ==
    \/ /\ cap.ticks < MaxSideTicks
       /\ Capture
    \/ Video
    \/ \E t \in Handlers :
          /\ \A u \in Handlers \ {t} : pc[u] = "idle"
          /\ \/ HandleConnect(t)
             \/ AddLog(t)

SpecVideo == InitVideo /\ [][NextVideo]_vars

\* SpecStatus: the telemetry thread, for MaxSideTicks ticks, and sessions
\* that connect, their events handled one after the other.
NextStatus ==
    \/ /\ tel.ticks < MaxSideTicks
       /\ Telemetry
    \/ \E t \in Handlers :
          /\ \A u \in Handlers \ {t} : pc[u] = "idle"
          /\ \/ HandleConnect(t)
             \/ AddLog(t)

SpecStatus == Init /\ [][NextStatus]_vars

\* SpecControl: a first session is connected; further sessions connect and
\* joystick_move, depth_change and take_photo commands arrive, their
\* handler threads running concurrently.
InitControl == InitConnected([DefaultConfig EXCEPT !.source = "dummy"])

NextControl ==
    \E t \in Handlers :
        \/ HandleConnect(t)
        \/ HandleJoystick(t)
        \/ HandleDepth(t)
        \/ HandlePhoto(t)
        \/ AddLog(t)

SpecControl == InitControl /\ [][NextControl]_vars

\* SpecTick: a first session is connected; the telemetry loop runs for
\* MaxSideTicks ticks, and between two ticks sessions connect and
\* disconnect, one event at a time, MaxSideTicks events in all.
NextTick ==
    \/ /\ tel.ticks < MaxSideTicks
       /\ Telemetry
    \/ \E t \in Handlers :
          /\ \A u \in Handlers \ {t} : pc[u] = "idle"
          /\ tel.pc = "sleep"
          /\ nEvents <= MaxSideTicks
          /\ \/ HandleConnect(t)
             \/ HandleDisconnect(t)
             \/ AddLog(t)

SpecTick == InitControl /\ [][NextTick]_vars

\* SpecAll: every handler and every loop of the serving process, with real
\* WiFi detection on and the sensor simulation off, a first session being
\* connected, scheduled coarsely: MaxSideTicks further events are handled
\* one after the other while the loops are between two iterations, and
\* each loop runs, for MaxSideTicks iterations, while no handler is running.
InitAll == InitConnected([DefaultConfig EXCEPT !.source = "dummy",
                                               !.simulate_sensors = FALSE])

BetweenIterations == tel.pc = "sleep" /\ cap.pc = "loop" /\ vid.pc = "loop"

NextAll ==
    \/ /\ \A u \in Handlers : pc[u] = "idle"
       /\ \/ tel.ticks < MaxSideTicks /\ Telemetry
          \/ cap.ticks < MaxSideTicks /\ Capture
          \/ vid.ticks < MaxSideTicks /\ Video
    \/ \E t \in Handlers :
          /\ \A u \in Handlers \ {t} : pc[u] = "idle"
          /\ BetweenIterations
          /\ nEvents <= MaxSideTicks
          /\ Handler(t)

SpecAll == InitAll /\ [][NextAll]_vars

\* SpecPull: the server while it serves with an opened camera: the capture
\* thread, and sessions that connect, pull frames with get_frame and
\* disconnect, their events handled one after the other.
NextPull ==
    \/ Capture
    \/ \E t \in Handlers :
          /\ \A u \in Handlers \ {t} : pc[u] = "idle"
          /\ \/ HandleConnect(t)
             \/ HandleDisconnect(t)
             \/ HandleGetFrame(t)
             \/ AddLog(t)

SpecPull == InitVideo /\ [][NextPull]_vars

\* ------------------------------------------------- properties: event log
InAddLog(t) == pc[t] \in {"log_append", "log_check", "log_pop", "log_emit"}

\* The insertion numbers of the entries of a list of log entries.
Ids(logs) == [i \in 1..Len(logs) |-> logs[i].id]

\* The insertion numbers of the most recent max_logs appended entries.
MostRecentIds ==
    LET k == Min(nAppended, max_logs)
    IN [i \in 1..k |-> nAppended - k + i]

\* C1: whenever an add_log call completes (its thread leaves the emit step),
\* system_logs holds at most max_logs entries, and they are exactly the most
\* recent max_logs appended entries in insertion order.
C1_BoundedAfterEveryAddLog ==
    [][\A t \in Threads :
         (pc[t] = "log_emit" /\ pc'[t] /= "log_emit")
            => /\ Len(system_logs') <= max_logs
               /\ Ids(system_logs') = MostRecentIds']_vars

\* Positions of the messages of one kind in a session's inbox.
Received(s, event) == {i \in 1..Len(inbox[s]) : inbox[s][i].event = event}

\* C2: every 'logs' snapshot a session receives holds at most max_logs
\* entries: a reader never sees the log between an append and its eviction.
C2_SnapshotWithinCapacity ==
    \A s \in Sessions : \A i \in Received(s, "logs") :
        Len(inbox[s][i].data) <= max_logs

SnapshotIds(s) ==
    UNION {{inbox[s][i].data[j].id : j \in 1..Len(inbox[s][i].data)} :
             i \in Received(s, "logs")}

NewLogIds(s) == {inbox[s][i].data.id : i \in Received(s, "new_log")}

\* Entries appended whose new_log has not been published yet.
UnpublishedIds ==
    {loc[t].log_entry.id : t \in {u \in Threads : pc[u] \in {"log_check", "log_pop", "log_emit"}}}

SetMax(S) == IF S = {} THEN 0 ELSE CHOOSE m \in S : \A n \in S : n <= m

\* C6: a session receives one 'logs' snapshot, and after it a new_log for
\* exactly the entries appended after the snapshot: no new_log before the
\* snapshot, none for an entry of the snapshot, none twice, and none missing
\* for a published entry newer than the snapshot.
C6_SnapshotThenExactlyNewEntries ==
    \A s \in Sessions :
        Received(s, "logs") /= {} =>
            /\ Cardinality(Received(s, "logs")) = 1
            /\ \A i \in Received(s, "new_log") : \A j \in Received(s, "logs") : j < i
            /\ SnapshotIds(s) \cap NewLogIds(s) = {}
            /\ Cardinality(Received(s, "new_log")) = Cardinality(NewLogIds(s))
            /\ sess[s] \in {"connecting", "connected"} =>
                 \A n \in (SetMax(SnapshotIds(s)) + 1)..nAppended :
                     n \in NewLogIds(s) \cup UnpublishedIds

\* ------------------------------------------------- properties: telemetry
\* C3: wifi_strength and battery are within [0,100] in every reachable
\* state, for every sequence of random-walk steps and every result of the
\* lookup.
C3_TelemetryInRange ==
    /\ system_status.wifi_strength \in 0..100
    /\ system_status.battery \in 0..100

WifiTick == tel.pc = "sleep" /\ tel'.pc = "battery"

\* C4 as stated: on a tick the new wifi_strength is the looked-up value if
\* the lookup succeeds, else the previous value plus a step in [-5,5] clamped
\* to [0,100] if simulate_sensors is on, else the previous value.
C4_WifiUpdateClampedAtZero ==
    [][WifiTick =>
         IF tel'.real_wifi.found
         THEN system_status'.wifi_strength = tel'.real_wifi.percentage
         ELSE IF config.simulate_sensors
         THEN \E step \in -5..5 :
                 system_status'.wifi_strength =
                     Max(0, Min(100, system_status.wifi_strength + step))
         ELSE system_status'.wifi_strength = system_status.wifi_strength]_vars

\* C4 amended: the same, with the simulated value clamped to [10,100].
C4_WifiUpdate ==
    [][WifiTick =>
         IF tel'.real_wifi.found
         THEN system_status'.wifi_strength = tel'.real_wifi.percentage
         ELSE IF config.simulate_sensors
         THEN \E step \in -5..5 :
                 system_status'.wifi_strength =
                     Max(10, Min(100, system_status.wifi_strength + step))
         ELSE system_status'.wifi_strength = system_status.wifi_strength]_vars

\* C4 witness: a tick whose lookup failed has simulated the WiFi value down
\* to the floor of the walk.
C4_Witness ==
    /\ tel.pc = "battery"
    /\ ~tel.real_wifi.found
    /\ config.simulate_sensors
    /\ tel.step < 0
    /\ system_status.wifi_strength = 10

\* C5: the battery part of a tick adds a step in [-2,1] and clamps to
\* [0,100] when simulate_sensors is on; with simulate_sensors off, and in
\* every other step of the telemetry loop, battery does not change.
C5_BatteryWalk ==
    [][IF tel.pc = "battery" /\ config.simulate_sensors
       THEN \E step \in -2..1 :
               system_status'.battery = Max(0, Min(100, system_status.battery + step))
       ELSE system_status'.battery = system_status.battery]_vars

\* C5 witness: with simulation on, a tick has walked the battery from 0 up
\* to 1; the clamp at 0 is on that same path.
C5_Witness ==
    /\ config.simulate_sensors
    /\ config.initial_battery = 0
    /\ tel.ticks >= 2
    /\ system_status.battery = 1

\* ----------------------------------------------- properties: the handlers
\* The 'system_status' messages a session received that carry depth and
\* light: the initial payloads of handle_connect.
InitialPayloads(s) ==
    {i \in Received(s, "system_status") : "depth" \in DOMAIN inbox[s][i].data}

CurrentPayload ==
    [wifi_strength |-> system_status.wifi_strength,
     battery |-> system_status.battery,
     depth |-> system_status.depth,
     light |-> system_status.light]

HasNewLog(s, entry) ==
    \E i \in Received(s, "new_log") : inbox[s][i].data = entry

\* C7: with the commands handled one after the other, a connecting session
\* and no other is sent one system_status payload that carries the current
\* wifi_strength, battery, depth and light; then a "Client connected" entry
\* is appended and published to every registered session.
C7_ConnectPayload ==
    /\ \A s \in Sessions : Cardinality(InitialPayloads(s)) <= 1
    /\ \A t \in Handlers :
          pc[t] = "conn_logs" =>
             \E i \in InitialPayloads(loc[t].sid) :
                 inbox[loc[t].sid][i].data = CurrentPayload
    /\ \A t \in Handlers :
          pc[t] = "conn_done" =>
             /\ loc[t].log_entry.message = <<"Client connected">>
             /\ loc[t].log_entry.level = "INFO"
             /\ \A r \in Registry : HasNewLog(r, loc[t].log_entry)
             /\ \A i \in InitialPayloads(loc[t].sid) :
                   \A j \in Received(loc[t].sid, "new_log") :
                       inbox[loc[t].sid][j].data = loc[t].log_entry => i < j

\* C7 witness: the second session's connect has completed after a
\* depth_change to 42, and its initial payload carries depth 42.
C7_Witness ==
    /\ NSessions >= 2
    /\ sess[2] = "connected"
    /\ system_status.depth = 42
    /\ \E i \in InitialPayloads(2) : inbox[2][i].data.depth = 42
    /\ \E i \in Received(1, "new_log") :
          inbox[1][i].data.message = <<"Client connected">>
          /\ inbox[1][i].data.id = nAppended

\* C8: every execution of the disconnect handler reaches add_log: when the
\* handler ends, it has appended its "Client disconnected" entry.
C8_DisconnectIsLogged ==
    \A t \in Handlers :
        pc[t] = "disc_done" => loc[t].log_entry.message = <<"Client disconnected">>

LightLogs(s) ==
    {i \in Received(s, "new_log") : inbox[s][i].data.message[1] = "Light"}

InLightHandler(t) ==
    \/ pc[t] \in {"light_write", "light_status", "light_emit"}
    \/ InAddLog(t) /\ loc[t].ret = "light_emit"

IsOdd(n) == n % 2 = 1

\* C9: with the commands handled one after the other, a toggle inverts the
\* light, appends one entry naming the state it produced, and broadcasts a
\* light_status with that state to every session that got the entry; two
\* toggles give the original value back.
C9_LightToggleInvolution ==
    /\ \A t \in Handlers :
          pc[t] = "light_status" => system_status.light = ~loc[t].data.light
    /\ \A t \in Handlers :
          pc[t] = "light_emit" =>
             /\ system_status.light = ~loc[t].data.light
             /\ loc[t].log_entry.message = <<"Light", LightName(system_status.light)>>
    /\ \A s \in Sessions : \A i \in LightLogs(s) :
          \/ \E t \in Handlers : pc[t] = "light_emit" /\ loc[t].log_entry = inbox[s][i].data
          \/ \E j \in Received(s, "light_status") :
                /\ i < j
                /\ \A k \in LightLogs(s) : ~(i < k /\ k < j)
                /\ inbox[s][j].data.status = (inbox[s][i].data.message[2] = "ON")
    /\ \A s \in Sessions : \A i, j \in LightLogs(s) :
          (i < j /\ \A k \in LightLogs(s) : ~(i < k /\ k < j))
             => inbox[s][i].data.message[2] /= inbox[s][j].data.message[2]
    /\ (sess[1] = "connected" /\ \A t \in Handlers : ~InLightHandler(t))
          => system_status.light = IsOdd(Cardinality(LightLogs(1)))

\* C9 witness: two toggles have completed; the light is back to its
\* original value and the session received both entries and both statuses.
C9_Witness ==
    /\ \A t \in Handlers : pc[t] = "idle"
    /\ sess[1] = "connected"
    /\ Cardinality(LightLogs(1)) = 2
    /\ Cardinality(Received(1, "light_status")) = 2
    /\ system_status.light = FALSE

\* -------------------------------------------------- properties: the camera
\* CameraStream.start() has returned to the main thread.
StartReturned ==
    \/ pc[MainThread] \in {"m_monitor", "m_video", "m_serve", "m_stop",
                          "m_release", "m_stopped", "m_exit"}
    \/ InAddLog(MainThread) /\ loc[MainThread].ret \in {"m_video", "m_serve", "m_stop"}

\* C10: once start() has returned and the capture loop is not in the middle
\* of an iteration, a frame source in the failure state (source not opened,
\* or the last read failed) shows a placeholder frame, and the WARNING/ERROR
\* entries appended equal in number the entries into the failure state.
C10_OneFallbackLogPerFailure ==
    (StartReturned /\ cap.pc /= "store") =>
        /\ cap.failing => camera_stream.frame = "dummy"
        /\ cap.fallbacks = cap.failures

\* ---------------------------------------------- properties: the video loop
\* The video_frame messages a session has in the inbox box.
VideoFrames(box, s) == {i \in 1..Len(box[s]) : box[s][i].event = "video_frame"}

\* The inboxes after a video_frame with the data URL url has been delivered
\* to every registered session and to no other.
PushedToAll(url) ==
    [s \in Sessions |->
        IF s \in Registry
        THEN Append(inbox[s], [event |-> "video_frame", data |-> [frame |-> url]])
        ELSE inbox[s]]

\* While no frame has been produced, no session has received a video_frame.
NoFrameNoSend ==
    camera_stream.frame = None => \A s \in Sessions : VideoFrames(inbox, s) = {}

\* C11: an iteration of the video push loop reads the frame only when
\* camera_active is true, has a data URL exactly when a current frame
\* exists, and then delivers one video_frame to every registered session,
\* and otherwise delivers nothing; no other step delivers a video_frame;
\* while no frame has been produced nothing is sent, and the loop is never
\* anywhere but in its iteration.
C11_VideoPushLoop ==
    [][/\ (vid.pc = "loop" /\ vid'.pc = "encode") => system_status.camera_active
       /\ (vid.pc = "loop" /\ vid'.pc = "loop" /\ vid'.ticks /= vid.ticks)
             => (~system_status.camera_active /\ inbox' = inbox)
       /\ (vid.pc = "encode" /\ vid'.pc = "send")
             => (vid'.frame /= NoUrl <=> camera_stream.frame /= None)
       /\ (vid.pc = "send" /\ vid'.pc = "loop")
             => inbox' = IF vid.frame /= NoUrl THEN PushedToAll(vid.frame)
                         ELSE inbox
       /\ ~(vid.pc = "send" /\ vid'.pc = "loop")
             => \A s \in Sessions :
                   Cardinality(VideoFrames(inbox', s)) = Cardinality(VideoFrames(inbox, s))
       /\ NoFrameNoSend'
       /\ vid'.pc \in {"loop", "encode", "send"}]_vars

\* C11 witness: the video loop has completed an iteration while no frame had
\* been produced, and the connected session has received no video_frame.
C11_Witness ==
    /\ camera_stream.frame = None
    /\ vid.ticks >= 1
    /\ sess[1] = "connected"
    /\ VideoFrames(inbox, 1) = {}

\* Thread who is inside get_frame_base64's with block, about to encode.
Encoding(who) ==
    \/ who = VideoThread /\ vid.pc = "encode"
    \/ who \in Handlers /\ pc[who] = "gf_encode"

\* C12: the lock on the current-frame slot is not held during encoding: the
\* capture loop, ready to replace the frame, never finds the lock held by a
\* reader that is encoding.
C12_StoreNotBlockedByEncoding ==
    cap.pc = "store" =>
        ~(camera_stream.lock /= Free /\ Encoding(camera_stream.lock))

\* ----------------------------------------- properties: the session commands
\* C13: an inbound command whose handler fails at once (the event is
\* dispatched and no handler thread is left running) leaves system_status
\* and system_logs as they were.
C13_MalformedCommandRejected ==
    [][(nEvents' = nEvents + 1 /\ pc' = pc)
          => (system_status' = system_status /\ system_logs' = system_logs)]_vars

\* Thread t is inside handle_photo (in its add_log call or at its emit).
InPhotoHandler(p, l, t) ==
    \/ p[t] = "photo_emit"
    \/ /\ p[t] \in {"log_append", "log_check", "log_pop", "log_emit"}
       /\ l[t].ret = "photo_emit"

PhotoEntry(entry) == entry.level = "SUCCESS" /\ entry.message = <<"Photo captured">>

\* C14: with the commands handled one after the other, no step of
\* handle_photo changes system_status or the camera stream (frame, device,
\* lock); the handler appends one entry, a SUCCESS entry, publishes it to
\* every registered session, and then delivers one photo_taken to the
\* requesting session and to no other.
C14_PhotoOnlyLogsAndAcknowledges ==
    [][\A t \in Handlers :
         (pc'[t] /= pc[t] /\ (InPhotoHandler(pc, loc, t) \/ InPhotoHandler(pc', loc', t)))
            => /\ system_status' = system_status
               /\ camera_stream' = camera_stream
               /\ pc'[t] = "log_append" => pc[t] = "idle"
               /\ IF pc[t] = "log_append"
                  THEN /\ nAppended' = nAppended + 1
                       /\ PhotoEntry(loc'[t].log_entry)
                       /\ system_logs' = Append(system_logs, loc'[t].log_entry)
                  ELSE /\ nAppended' = nAppended
                       /\ Len(system_logs') <= Len(system_logs)
               /\ IF pc[t] = "log_emit"
                  THEN inbox' = Broadcast(inbox, "new_log", loc[t].log_entry)
                  ELSE IF pc[t] = "photo_emit"
                  THEN /\ PhotoEntry(loc[t].log_entry)
                       /\ pc'[t] = "idle"
                       /\ inbox' = [inbox EXCEPT ![loc[t].sid] =
                                       Append(@, [event |-> "photo_taken",
                                                  data |-> [timestamp |-> "now"]])]
                  ELSE inbox' = inbox]_vars

\* C14 witness: with two sessions connected, the first one's take_photo has
\* completed: both received the SUCCESS entry, only the first a photo_taken.
C14_Witness ==
    /\ NSessions >= 2
    /\ sess[1] = "connected" /\ sess[2] = "connected"
    /\ \A t \in Handlers : pc[t] = "idle"
    /\ Cardinality(Received(1, "photo_taken")) = 1
    /\ Received(2, "photo_taken") = {}
    /\ \A s \in {1, 2} : \E i \in Received(s, "new_log") : PhotoEntry(inbox[s][i].data)

\* C15: no step of handle_get_frame changes system_status or the event log;
\* the handler has a data URL exactly when a current frame exists, and then
\* delivers one video_frame to the requesting session and to no other, and
\* otherwise delivers nothing; in both cases it ends without an error.
C15_FramePullAnswersRequester ==
    [][\A t \in Handlers :
         (pc'[t] /= pc[t] /\ (pc[t] \in {"gf_encode", "gf_emit"} \/ pc'[t] = "gf_encode"))
            => /\ system_status' = system_status
               /\ system_logs' = system_logs
               /\ nAppended' = nAppended
               /\ loc'[t].exc = None
               /\ pc[t] = "gf_encode"
                     => (loc'[t].data.frame /= NoUrl <=> camera_stream.frame /= None)
               /\ IF pc[t] = "gf_emit" /\ loc[t].data.frame /= NoUrl
                  THEN /\ pc'[t] = "idle"
                       /\ inbox' = [inbox EXCEPT ![loc[t].sid] =
                                       Append(@, [event |-> "video_frame",
                                                  data |-> [frame |-> loc[t].data.frame]])]
                  ELSE inbox' = inbox]_vars

\* C15 witness: the connected session has pulled twice, once before a frame
\* existed and once after: it has received one video_frame.
C15_Witness ==
    /\ MaxEvents >= 3
    /\ nEvents = 3
    /\ sess[1] = "connected"
    /\ \A s \in Sessions \ {1} : sess[s] = "new"
    /\ \A t \in Handlers : pc[t] = "idle"
    /\ Cardinality(VideoFrames(inbox, 1)) = 1

\* ------------------------------------------ properties: stopping the camera
\* C16: when the process has shut down, stop() has been invoked (running is
\* False and the device is not left opened); and once stop() has returned,
\* no iteration of the capture loop is in flight that would still read the
\* device or replace the current frame.
C16_StopHaltsAcquisition ==
    /\ pc[MainThread] = "m_exit"
          => (~camera_stream.running /\ camera_stream.camera /= "opened")
    /\ pc[MainThread] = "m_stopped" => cap.pc \notin {"read", "store"}

\* C19: from the return of start() until stop() is called, the capture loop
\* is running, whatever the outcome of opening the source.
C19_CaptureLoopRunsAfterStart ==
    (StartReturned /\ pc[MainThread] \notin {"m_release", "m_stopped", "m_exit"})
        => /\ camera_stream.running
           /\ cap.pc \in {"loop", "read", "store", "sleep"}

\* ------------------------------------------- properties: concurrent add_log
\* C17: every session receives the new_log events in the order in which
\* their entries were inserted into system_logs.
C17_PublishedInInsertionOrder ==
    \A s \in Sessions : \A i, j \in Received(s, "new_log") :
        i < j => inbox[s][i].data.id < inbox[s][j].data.id

\* ------------------------------------------------------ properties: depth
\* C20: system_status['depth'] is an integer between depth.min_value and
\* depth.max_value of the configuration.
C20_DepthWithinConfiguredRange ==
    system_status.depth \in config.depth_min_value..config.depth_max_value

\* --------------------------------------- properties: telemetry observers
\* C18: the wifi_strength and the battery of a handle_connect payload come
\* from the writes of the same telemetry tick, and so do those of every
\* system_status broadcast.
C18_PayloadFromOneTick ==
    /\ \A t \in Handlers :
          pc[t] \in {"conn_depth", "conn_light"} => loc[t].tick.wifi = loc[t].tick.battery
    /\ tel.pc = "emit" => WifiTickNo = BatteryTickNo

\* ------------------------------------------- properties: the control state
\* Thread t is inside the add_log call of the command named kind
\* ("Joystick", "Depth changed to").
InCommandLog(p, l, t, kind) ==
    /\ p[t] \in {"log_append", "log_check", "log_pop", "log_emit"}
    /\ l[t].message[1] = kind

\* C21: with the commands handled one after the other, a well-formed
\* joystick_move stores exactly the pair it was given (the pair its log
\* entry names), out of range or not, leaves every other field of
\* system_status as it was, and appends one log entry.
C21_JoystickStoredAsGiven ==
    [][\A t \in Handlers :
         (pc'[t] /= pc[t]
            /\ (InCommandLog(pc, loc, t, "Joystick") \/ InCommandLog(pc', loc', t, "Joystick")))
            => /\ IF pc[t] = "idle"
                  THEN system_status' =
                         [system_status EXCEPT !.joystick =
                            [x |-> loc'[t].message[2], y |-> loc'[t].message[3]]]
                  ELSE system_status' = system_status
               /\ pc'[t] = "log_append" => pc[t] = "idle"
               /\ IF pc[t] = "log_append"
                  THEN /\ nAppended' = nAppended + 1
                       /\ system_logs' = Append(system_logs, loc'[t].log_entry)
                       /\ loc'[t].log_entry.message = loc[t].message
                  ELSE /\ nAppended' = nAppended
                       /\ Len(system_logs') <= Len(system_logs)]_vars

\* C21 witness: a joystick_move with x = 1.70 has completed: the pair is
\* stored out of range and the session received its log entry.
C21_Witness ==
    /\ system_status.joystick = [x |-> 170, y |-> 0]
    /\ \A t \in Handlers : pc[t] = "idle"
    /\ \E i \in Received(1, "new_log") :
          inbox[1][i].data.message = <<"Joystick", 170, 0>>

\* Thread t starts the add_log call of the command named kind in this step:
\* the command's write to system_status happens in the same step.
CommandWrite(t, kind) ==
    /\ pc[t] = "idle"
    /\ pc'[t] = "log_append"
    /\ loc'[t].message[1] = kind

\* C22: under any interleaving of the handler threads, every depth_change
\* write sets depth to the value of its command and every joystick_move
\* write sets joystick to the payload of its command, whichever session
\* sent it and whatever was stored before; nothing else changes depth or
\* joystick.  So both always hold the value of the last write.
C22_LastWriterWins ==
    [][/\ \A t \in Handlers :
            CommandWrite(t, "Depth changed to")
               => system_status'.depth = loc'[t].message[2]
       /\ \A t \in Handlers :
            CommandWrite(t, "Joystick")
               => system_status'.joystick =
                      [x |-> loc'[t].message[2], y |-> loc'[t].message[3]]
       /\ system_status'.depth /= system_status.depth
             => \E t \in Handlers : CommandWrite(t, "Depth changed to")
       /\ system_status'.joystick /= system_status.joystick
             => /\ nEvents' = nEvents + 1
                /\ system_status'.joystick \in JoystickInputs
                /\ \/ pc' = pc
                   \/ \E t \in Handlers : CommandWrite(t, "Joystick")]_vars

\* C22 witness: depth_change 150 was written and logged, and a later
\* depth_change 42 has overwritten it.
C22_Witness ==
    /\ system_status.depth = 42
    /\ \E i \in Received(1, "new_log") :
          inbox[1][i].data.message = <<"Depth changed to", 150>>

\* Some handler thread takes the step of handle_light that stores the
\* inverted light.
LightWriteStep == \E t \in Handlers : pc[t] = "light_write" /\ pc'[t] = "light_status"

\* The step dispatches a joystick_move: the event is counted and either its
\* handler goes on to log the pair it stored or it fails at once.
JoystickWriteStep ==
    /\ nEvents' = nEvents + 1
    /\ \/ pc' = pc
       \/ \E t \in Handlers : CommandWrite(t, "Joystick")

TickEnds == tel.pc = "emit" /\ tel'.pc = "sleep"

\* C24: a telemetry tick goes through its wifi update, its battery update
\* and its emit in that order; the step that ends the tick appends one
\* system_status message to the inbox of every registered session, carrying
\* exactly wifi_strength and battery with the values system_status holds at
\* that moment; no other step of the loop publishes anything; and the loop
\* is never at an end: whatever the lookup returned, its next step can be
\* taken.
C24_OneBroadcastPerTick ==
    /\ [](/\ tel.pc \in {"sleep", "battery", "emit"}
          /\ tel.ticks < MaxSideTicks => ENABLED Telemetry)
    /\ [][/\ tel' /= tel =>
               \/ tel.pc = "sleep" /\ tel'.pc = "battery" /\ tel'.ticks = tel.ticks
               \/ tel.pc = "battery" /\ tel'.pc = "emit" /\ tel'.ticks = tel.ticks
               \/ TickEnds /\ tel'.ticks = tel.ticks + 1
          /\ TickEnds =>
               /\ system_status' = system_status
               /\ \A s \in Sessions :
                     inbox'[s] =
                       IF s \in Registry
                       THEN Append(inbox[s],
                              [event |-> "system_status",
                               data |-> [wifi_strength |-> system_status'.wifi_strength,
                                         battery |-> system_status'.battery]])
                       ELSE inbox[s]
          /\ (tel' /= tel /\ ~TickEnds) => inbox' = inbox]_vars

\* C24 witness: a tick that changed wifi_strength has ended and a session
\* holds its broadcast, with the two telemetry fields only.
C24_Witness ==
    /\ tel.ticks >= 1
    /\ system_status.wifi_strength /= config.initial_wifi_strength
    /\ \E s \in Sessions : \E i \in 1..Len(inbox[s]) :
          /\ inbox[s][i].event = "system_status"
          /\ inbox[s][i].data = [wifi_strength |-> system_status.wifi_strength,
                                 battery |-> system_status.battery]

\* C25: under any interleaving of the handlers, once no toggle is in
\* progress the light is the initial value (off) inverted once per toggle
\* handled, counted by the "Light" entries the first session received; and
\* a toggle about to broadcast its light_status carries the state its log
\* entry names.
C25_TogglesAtomic ==
    /\ (sess[1] = "connected" /\ \A t \in Handlers : ~InLightHandler(t))
          => system_status.light = IsOdd(Cardinality(LightLogs(1)))
    /\ \A t \in Handlers :
          pc[t] = "light_emit" =>
             loc[t].log_entry.message = <<"Light", LightName(system_status.light)>>

LogLevels == {"INFO", "WARNING", "ERROR", "SUCCESS"}

\* C27: every entry in system_logs has one of the four levels, and a step
\* that changes system_logs either appends one new entry, with the next
\* insertion number, behind the entries already there, or removes the
\* entry at the front; the entries that stay are the same as before.
C27_EntriesImmutable ==
    /\ [](\A i \in 1..Len(system_logs) : system_logs[i].level \in LogLevels)
    /\ [][\/ system_logs' = system_logs
          \/ /\ Len(system_logs') = Len(system_logs) + 1
             /\ SubSeq(system_logs', 1, Len(system_logs)) = system_logs
             /\ system_logs'[Len(system_logs')].id = nAppended + 1
             /\ system_logs'[Len(system_logs')].level \in LogLevels
          \/ /\ system_logs /= <<>>
             /\ system_logs' = Tail(system_logs)]_vars

\* C27 witness: two handlers are inside add_log at once, one has appended
\* its entry and the log, over capacity, awaits an eviction; an entry with
\* level SUCCESS is in the log.
C27_Witness ==
    /\ Len(system_logs) > max_logs
    /\ \E t, u \in Handlers : t /= u /\ InAddLog(t) /\ InAddLog(u)
    /\ \E i \in 1..Len(system_logs) : system_logs[i].level = "SUCCESS"

====
